---------------------------- MODULE Spec2Model ----------------------------
(***************************************************************************)
(* Model of ssh-wrapper/ref-interface/src/api.rs: the session grant cache  *)
(* INSTANCE_DETAILS, the entry point ref_get_instance_details that fills   *)
(* it, and the entry point ref_proxy_connect that performs the proxy       *)
(* handshake and hands the connected socket to the host.                   *)
(*                                                                         *)
(* Conventions.  An Option<T> is a sequence of length at most one: << >>   *)
(* is None and <<v>> is Some(v).  A byte count is a pair <<hi, lo>> that    *)
(* stands for hi * 2^16 + lo, so that 64-bit lengths and their 32-bit      *)
(* truncation are exact.  A C string is a sequence of runs <<class, n>>:   *)
(* n bytes of one class of byte.                                           *)
(***************************************************************************)
EXTENDS Integers, Sequences, FiniteSets, TLC

VARIABLES INSTANCE_DETAILS, lock, th, fds, panicked

vars == <<INSTANCE_DETAILS, lock, th, fds, panicked>>

(***************************************************************************)
(* Bounds of the model.                                                    *)
(***************************************************************************)
\* Descriptors 0, 1 and 2 are the host's standard streams; sockets come
\* after them.
StandardStreams == {0, 1, 2}

FirstFd == Cardinality(StandardStreams)

\* The largest file descriptor the host process may have open (its
\* descriptor limit).
MaxFd == 4

\* The host's threads that call the two entry points.
Threads == {"t1", "t2"}

(***************************************************************************)
(* Byte counts: hi * 2^16 + lo.                                            *)
(***************************************************************************)
Limb == 2 ^ 16

Norm(hi, lo) == <<hi + (lo \div Limb), lo % Limb>>

Small(n) == Norm(0, n)

Add(a, b) == Norm(a[1] + b[1], a[2] + b[2])

Times(k, a) == Norm(k * a[1], k * a[2])

\* 2^32: one more than the largest u32.
TwoTo32 == <<Limb, 0>>

\* `x as u32` for a usize x: the low 32 bits.
AsU32(a) == <<a[1] % Limb, a[2]>>

(***************************************************************************)
(* C strings handed in by the host.                                        *)
(***************************************************************************)
\* Classes of byte: "plain" is an ASCII byte JSON copies, "quote" is a byte
\* JSON escapes in two bytes (" and \), "ctrl" a control byte JSON escapes as
\* \u00XX, "bad" a byte that is not valid UTF-8 (0xff).
ByteClasses == {"plain", "quote", "ctrl", "bad"}

\* CStr::to_owned().into_string(): Ok exactly for valid UTF-8.
IntoStringOk(s) == \A i \in 1..Len(s) : s[i][1] # "bad"

\* serde_json's escaping of one byte of a string.
EscapedLen(class) ==
    CASE class = "plain" -> 1
      [] class = "quote" -> 2
      [] class = "ctrl"  -> 6
      [] OTHER           -> 1

RECURSIVE JsonStrLen(_)
\* Bytes of the JSON string literal's content for s (without the quotes).
JsonStrLen(s) ==
    IF s = << >> THEN Small(0)
    ELSE Add(Times(EscapedLen(s[1][1]), s[1][2]), JsonStrLen(Tail(s)))

\* serde_json's writing of a string: a plain byte is copied, a byte of class
\* "quote" becomes a backslash and a letter ("esc2"), a control byte becomes
\* \u00XX ("esc6").
EscapeClass(class) ==
    CASE class = "plain" -> "plain"
      [] class = "quote" -> "esc2"
      [] class = "ctrl"  -> "esc6"
      [] OTHER           -> "invalid"

\* The content of the JSON string literal written for the string s.
EscapeStr(s) == [i \in 1..Len(s) |-> <<EscapeClass(s[i][1]), s[i][2]>>]

RECURSIVE DecLen(_)
\* Digits of the decimal rendering of an unsigned integer.
DecLen(n) == IF n < 10 THEN 1 ELSE 1 + DecLen(n \div 10)

RECURSIVE Digits(_)
\* The decimal rendering of an unsigned integer, as serde_json writes a u64.
Digits(n) == IF n < 10 THEN <<n>> ELSE Append(Digits(n \div 10), n % 10)


(***************************************************************************)
(* The authorization lookup's data.                                        *)
(***************************************************************************)
JsonResponseFields ==
    {"instance_id", "is_admin", "is_grading_assistent", "tcp_forwarding_allowed"}

\* Largest u8.
U8Max == 255

GrantA ==
    [instance_id |-> 7, is_admin |-> 0, is_grading_assistent |-> 0,
     tcp_forwarding_allowed |-> 1]

GrantB ==
    [instance_id |-> 12, is_admin |-> 1, is_grading_assistent |-> 0,
     tcp_forwarding_allowed |-> 0]

\* The instance of GrantA with other permissions.
GrantC ==
    [GrantA EXCEPT !.is_admin = 1, !.is_grading_assistent = 1,
                   !.tcp_forwarding_allowed = 0]

\* Texts the web server may answer with: json says whether the text is a
\* JSON object at all, obj gives the object's members.
ResponseTexts ==
    { [json |-> TRUE,  obj |-> GrantA],
      [json |-> TRUE,  obj |-> GrantB],
      [json |-> TRUE,  obj |-> [instance_id |-> 7, is_admin |-> 0]],
      [json |-> TRUE,  obj |-> [GrantA EXCEPT !.is_admin = U8Max + 1]],
      [json |-> FALSE, obj |-> << >>] }

\* Texts for two lookups that differ in the permissions only.
PermissionTexts ==
    { [json |-> TRUE,  obj |-> GrantA],
      [json |-> TRUE,  obj |-> GrantC],
      [json |-> FALSE, obj |-> << >>] }

\* serde_json::from_str::<JsonResponse>: every field is required, and the
\* three flags are u8.
FromStrOk(text) ==
    /\ text.json
    /\ JsonResponseFields \subseteq DOMAIN text.obj
    /\ \A f \in JsonResponseFields \ {"instance_id"} : text.obj[f] <= U8Max

FromStr(text) == [f \in JsonResponseFields |-> text.obj[f]]

\* JsonResponse::default().
DefaultJsonResponse == [f \in JsonResponseFields |-> 0]

\* Variant: a text that does not parse counts as the default response.
ParseResponseOrDefault(text) ==
    IF FromStrOk(text) THEN <<FromStr(text)>> ELSE <<DefaultJsonResponse>>

\* The Result of line 111 as an Option: the JsonResponse, or nothing for Err.
ParseResponse(text) == IF FromStrOk(text) THEN <<FromStr(text)>> ELSE << >>

\* The C strings the host passes as username and auth_info.
AuthStrings == { <<<<"plain", Small(5)>>>>, <<<<"plain", Small(2)>>, <<"bad", Small(1)>>>> }

(***************************************************************************)
(* A thread's call: the entry point it is in, where it is, its locals, and *)
(* after the return what the call reported.                                *)
(***************************************************************************)
NoError == [kind |-> "none", text |-> "", id |-> -1]

GenericError(text) == [kind |-> "GenericError", text |-> text, id |-> -1]

IoError(what) == [kind |-> "IoError", text |-> what, id |-> -1]

IdleFrame ==
    [op |-> "none", pc |-> "idle", req |-> << >>, body |-> << >>, resp |-> << >>,
     addr |-> << >>, port |-> << >>, msg |-> << >>, con |-> << >>,
     buffer |-> << >>, err |-> NoError, ret |-> << >>]

Running == panicked = << >>

\* The host may start a call on a thread that is in no call.
CanCall(t) == Running /\ th[t].pc = "idle"

\* A return from the entry point; the frame keeps what the call was given,
\* what it read from the cache and what it reported.
Return(t, frame) ==
    th' = [th EXCEPT ![t] =
            [frame EXCEPT !.pc = "idle", !.req = << >>, !.body = << >>,
                          !.msg = << >>, !.buffer = << >>]]

\* A panic inside an extern "C" entry point ends the host process.
Panic(t, where) == panicked' = <<[thread |-> t, at |-> where]>>

Init ==
    /\ INSTANCE_DETAILS = << >>
    /\ lock = "free"
    /\ th = [t \in Threads |-> IdleFrame]
    /\ fds = [fd \in FirstFd..MaxFd |-> "free"]
    /\ panicked = << >>

(***************************************************************************)
(* ref_get_instance_details                                                *)
(***************************************************************************)
\* Lines 67-89: both strings must be UTF-8, then the request is serialized.
AuthEnter(t, username, auth_info) ==
    /\ CanCall(t)
    /\ LET f == [IdleFrame EXCEPT !.op = "auth"] IN
       IF ~IntoStringOk(auth_info)
       THEN Return(t, [f EXCEPT !.err = GenericError("pubkey")])
       ELSE IF ~IntoStringOk(username)
       THEN Return(t, [f EXCEPT !.err = GenericError("name")])
       ELSE th' = [th EXCEPT ![t] =
                [f EXCEPT !.pc = "send",
                          !.req = <<[name |-> username, pubkey |-> auth_info]>>]]
    /\ UNCHANGED <<INSTANCE_DETAILS, lock, fds, panicked>>

\* Lines 91-99: the HTTP POST; ok says whether send() returned a response.
AuthSend(t, ok) ==
    /\ Running
    /\ th[t].pc = "send"
    /\ IF ok
       THEN th' = [th EXCEPT ![t].pc = "text"]
       ELSE Return(t, [th[t] EXCEPT !.err = GenericError("send")])
    /\ UNCHANGED <<INSTANCE_DETAILS, lock, fds, panicked>>

\* Lines 101-108: the response's body; text is << >> when it cannot be read.
AuthText(t, text) ==
    /\ Running
    /\ th[t].pc = "text"
    /\ IF text # << >>
       THEN th' = [th EXCEPT ![t].pc = "parse", ![t].body = text]
       ELSE Return(t, [th[t] EXCEPT !.err = GenericError("text")])
    /\ UNCHANGED <<INSTANCE_DETAILS, lock, fds, panicked>>

\* Lines 110-119: the body parsed into a JsonResponse.
AuthParse(t) ==
    /\ Running
    /\ th[t].pc = "parse"
    /\ LET response == ParseResponse(th[t].body[1]) IN
       IF response # << >>
       THEN th' = [th EXCEPT ![t].pc = "assert", ![t].resp = response]
       ELSE Return(t, [th[t] EXCEPT !.err = GenericError("parse")])
    /\ UNCHANGED <<INSTANCE_DETAILS, lock, fds, panicked>>

\* Variant: the assertion is compiled out.
AssertSkipped(cache) == TRUE

\* The condition of the assertion of line 122.
AssertHolds(cache) == cache = << >>

\* Variant: the guard is kept in a local that lives to the function's end.
KeepGuard(t) == t

\* The guard of a lock() statement is dropped at the statement's end.
Unlock(t) == "free"

\* Line 122: lock, look, unlock; the assertion's failure is a panic.
AuthAssert(t) ==
    /\ Running
    /\ th[t].pc = "assert"
    /\ lock = "free"
    /\ lock' = Unlock(t)
    /\ IF AssertHolds(INSTANCE_DETAILS)
       THEN th' = [th EXCEPT ![t].pc = "store"] /\ UNCHANGED panicked
       ELSE Panic(t, "assert") /\ UNCHANGED th
    /\ UNCHANGED <<INSTANCE_DETAILS, fds>>

\* The value line 123 leaves in the cache.
Stored(cache, response) == <<response>>

\* Line 123: lock again, store, unlock, return.
AuthStore(t) ==
    /\ Running
    /\ th[t].pc = "store"
    /\ lock = "free"
    /\ lock' = Unlock(t)
    /\ INSTANCE_DETAILS' = Stored(INSTANCE_DETAILS, th[t].resp[1])
    /\ Return(t, th[t])
    /\ UNCHANGED <<fds, panicked>>


(***************************************************************************)
(* The proxy protocol's messages.                                          *)
(***************************************************************************)
\* enum MessageId.
ProxyRequestId == 0

SuccessId == 50

FailedId == 51

MessageIds == {ProxyRequestId, SuccessId, FailedId}

\* mem::size_of::<MessageHeader>(): packed, a u8 and a u32.
HeaderSize == 1 + 4

\* Variant: the port is written where the address belongs and the address
\* where the port belongs.
NewProxyRequestSwapped(instance_id, dst_ip, dst_port) ==
    [msg_type |-> "PROXY_REQUEST", instance_id |-> instance_id,
     dst_ip |-> dst_port, dst_port |-> dst_ip]

\* message::ProxyRequest::new.
NewProxyRequest(instance_id, dst_ip, dst_port) ==
    [msg_type |-> "PROXY_REQUEST", instance_id |-> instance_id,
     dst_ip |-> dst_ip, dst_port |-> dst_port]

\* Bytes of serde_json::to_string(&body):
\* {"msg_type":"PROXY_REQUEST","instance_id":N,"dst_ip":"..","dst_port":".."}
JsonLen(body) ==
    Add(Small(Len("{\"msg_type\":\"") + Len(body.msg_type)
              + Len("\",\"instance_id\":") + DecLen(body.instance_id)
              + Len(",\"dst_ip\":\"") + Len("\",\"dst_port\":\"") + Len("\"}")),
        Add(JsonStrLen(body.dst_ip), JsonStrLen(body.dst_port)))

\* The members of the JSON text written for body, in the order of the
\* struct's fields: the literals' contents and the number's digits.
JsonText(body) ==
    [msg_type |-> body.msg_type, instance_id |-> Digits(body.instance_id),
     dst_ip |-> EscapeStr(body.dst_ip), dst_port |-> EscapeStr(body.dst_port)]

\* serde_json::to_string: the text and its size.
ToJsonString(body) == [text |-> JsonText(body), nbytes |-> JsonLen(body)]

\* Lines 217-227: the message id, the body's length as a big-endian u32, the
\* body.
BuildMessage(json_body) ==
    [msg_id |-> ProxyRequestId, len |-> AsU32(json_body.nbytes), body |-> json_body]

(***************************************************************************)
(* The TCP connections to ssh-proxy:8001, the host's descriptors and the   *)
(* proxy server's side.                                                    *)
(***************************************************************************)
DEFAULT_TIMEOUT == 30

\* What the proxy server does with the request: it takes it ("all"), stops
\* taking bytes ("stall") or resets the connection ("reset").
Accepts == {"all", "stall", "reset"}

\* What the proxy server answers: the bytes resp, after which it closes
\* ("eof") or sends nothing more ("silent").
Answers ==
    { [resp |-> r, then |-> e] :
        r \in { << >>, <<SuccessId>> }, e \in {"eof", "silent"} }
    \cup { [resp |-> r, then |-> "silent"] :
        r \in { <<SuccessId, 0, 0, 0, 0>>, <<SuccessId, 0, 0, 0, 2, 1, 1>>,
                <<FailedId, 0, 0, 0, 0>>, <<ProxyRequestId, 0, 0, 0, 0>>,
                <<99, 0, 0, 0, 0>> } }

Fds == FirstFd..MaxFd

FreeFds == { fd \in Fds : fds[fd] = "free" }

\* The kernel hands out the lowest descriptor that is not open.
LowestFreeFd == CHOOSE fd \in FreeFds : \A other \in FreeFds : fd <= other

\* A TcpStream just connected: state says whether the stream still owns the
\* descriptor ("owned"), was dropped ("dropped") or gave it away ("raw");
\* closes counts the close() calls made for it; out is what was written,
\* nread the bytes read, accept and answer what the server did.
NewConnection(fd) ==
    [fd |-> fd, state |-> "owned", closes |-> 0, wtimeout |-> 0, rtimeout |-> 0,
     out |-> << >>, outDone |-> FALSE, nread |-> 0, accept |-> "",
     answer |-> << >>]

\* Variant: the write timeout is left as the socket came (none).
WriteTimeoutNotSet(c) == c

\* Lines 233 and 234: the timeouts of the socket.
SetWriteTimeout(c) == [c EXCEPT !.wtimeout = DEFAULT_TIMEOUT]

\* Variant: the read timeout is left as the socket came (none).
ReadTimeoutNotSet(c) == c

SetReadTimeout(c) == [c EXCEPT !.rtimeout = DEFAULT_TIMEOUT]

\* Variant: the descriptor is closed by hand and again by the destructor.
CloseThenDrop(c) == [c EXCEPT !.state = "dropped", !.closes = c.closes + 2]

\* Variant: the stream is forgotten without its destructor running.
Forget(c) == [c EXCEPT !.state = "dropped"]

\* drop(con): the TcpStream's destructor closes the descriptor.
Drop(c) == [c EXCEPT !.state = "dropped", !.closes = c.closes + 1]

\* con.into_raw_fd(): no destructor runs, the descriptor is the caller's.
IntoRawFd(c) == [c EXCEPT !.state = "raw"]

\* The descriptors after the stream before became the stream after: a
\* close() frees the descriptor, a stream made raw leaves it to the host.
Closed(table, before, after) ==
    IF after.closes > before.closes THEN [table EXCEPT ![before.fd] = "free"]
    ELSE IF after.state = "raw" THEN [table EXCEPT ![before.fd] = "host"]
    ELSE table

(***************************************************************************)
(* ref_proxy_connect                                                       *)
(***************************************************************************)
\* The C strings the host passes as addr and port.
AddrStrings ==
    { <<<<"plain", Small(3)>>, <<"quote", Small(1)>>, <<"ctrl", Small(1)>>>>,
      <<<<"plain", TwoTo32>>>>,
      <<<<"bad", Small(1)>>>> }

PortStrings == { <<<<"plain", Small(2)>>>>, <<<<"bad", Small(2)>>>> }

\* Variant: after an Err the handshake is tried again from line 230 instead
\* of being reported.
RetryOnErr(t, e, con) ==
    /\ th' = [th EXCEPT ![t].pc = "connect",
                        ![t].con = IF con = << >> THEN << >> ELSE <<Drop(con[1])>>]
    /\ fds' = IF con = << >> THEN fds ELSE Closed(fds, con[1], Drop(con[1]))

\* Lines 174-178 with the `?` of the callee: an Err is reported and becomes
\* -1; the connection the callee held (con, if any) goes out of scope.
ReturnErr(t, e, con) ==
    /\ Return(t, [th[t] EXCEPT !.err = e, !.ret = <<-1>>,
                               !.con = IF con = << >> THEN << >> ELSE <<Drop(con[1])>>])
    /\ fds' = IF con = << >> THEN fds ELSE Closed(fds, con[1], Drop(con[1]))

\* Variant: an unset cache reads as the default response.
CloneOrDefault(cache) == IF cache = << >> THEN <<DefaultJsonResponse>> ELSE cache

\* Variant: the fields are copied one by one without the lock, and a store
\* in between leaves the flags of the copy behind.
CloneTorn(cache) ==
    IF cache = << >>
    THEN << >>
    ELSE <<[DefaultJsonResponse EXCEPT !.instance_id = cache[1].instance_id]>>

\* Line 202: lock, clone, unlock.
Clone(cache) == cache

\* Variant: a grant that does not allow TCP forwarding is refused like a
\* missing one.
IsNoneOrForbidden(resp) ==
    resp = << >> \/ resp[1].tcp_forwarding_allowed = 0

\* Line 204: ok_or(..)? returns the Err exactly for None.
IsNone(resp) == resp = << >>

\* Variant: Option::take, which moves the grant out of the cache.
Take(cache) == << >>

\* Line 202: clone borrows the Option in the mutex and leaves it as it was.
Borrowed(cache) == cache

\* Lines 202-227: the cache is read; without a grant the call ends here;
\* with one the two strings are unwrapped and the message is built.
ProxyEnter(t, addr, port) ==
    /\ CanCall(t)
    /\ lock = "free"
    /\ lock' = Unlock(t)
    /\ LET resp == Clone(INSTANCE_DETAILS)
           f == [IdleFrame EXCEPT !.op = "proxy", !.addr = <<addr>>,
                                  !.port = <<port>>, !.resp = resp]
       IN IF IsNone(resp)
          THEN /\ Return(t, [f EXCEPT
                    !.err = GenericError("INSTANCE_DETAILS should not be empty!"),
                    !.ret = <<-1>>])
               /\ UNCHANGED panicked
          ELSE IF ~IntoStringOk(addr) \/ ~IntoStringOk(port)
          THEN /\ th' = [th EXCEPT ![t] = [f EXCEPT !.pc = "build"]]
               /\ Panic(t, "unwrap")
          ELSE /\ th' = [th EXCEPT ![t] = [f EXCEPT !.pc = "connect",
                    !.msg = <<BuildMessage(ToJsonString(
                        NewProxyRequest(resp[1].instance_id, addr, port)))>>]]
               /\ UNCHANGED panicked
    /\ INSTANCE_DETAILS' = Borrowed(INSTANCE_DETAILS)
    /\ UNCHANGED fds

\* Line 230: TcpStream::connect; ok says whether the proxy server is reached.
\* Without a free descriptor no socket can be made.
ProxyConnect(t, ok) ==
    /\ Running
    /\ th[t].pc = "connect"
    /\ IF ok /\ FreeFds # {}
       THEN /\ fds' = [fds EXCEPT ![LowestFreeFd] = "client"]
            /\ th' = [th EXCEPT ![t].pc = "wtimeout",
                                ![t].con = <<NewConnection(LowestFreeFd)>>]
       ELSE ReturnErr(t, IoError("connect"), << >>)
    /\ UNCHANGED <<INSTANCE_DETAILS, lock, panicked>>

\* Line 233.
ProxySetWriteTimeout(t, ok) ==
    /\ Running
    /\ th[t].pc = "wtimeout"
    /\ IF ok
       THEN /\ th' = [th EXCEPT ![t].pc = "rtimeout",
                                ![t].con = <<SetWriteTimeout(th[t].con[1])>>]
            /\ UNCHANGED fds
       ELSE ReturnErr(t, IoError("set_write_timeout"), th[t].con)
    /\ UNCHANGED <<INSTANCE_DETAILS, lock, panicked>>

\* Line 234.
ProxySetReadTimeout(t, ok) ==
    /\ Running
    /\ th[t].pc = "rtimeout"
    /\ IF ok
       THEN /\ th' = [th EXCEPT ![t].pc = "write",
                                ![t].con = <<SetReadTimeout(th[t].con[1])>>]
            /\ UNCHANGED fds
       ELSE ReturnErr(t, IoError("set_read_timeout"), th[t].con)
    /\ UNCHANGED <<INSTANCE_DETAILS, lock, panicked>>

\* A blocking call on a socket gives up once the timeout set for it passes;
\* with none set (0) it waits for ever.
TimesOut(timeout) == timeout > 0

\* The thread is inside a blocking call that never returns.
Hang(t, con) == th' = [th EXCEPT ![t].pc = "hung", ![t].con = con] /\ UNCHANGED fds

\* Line 237: write_all.  A server that takes the bytes gets the whole
\* message; otherwise only a part of it leaves before the error.
ProxyWrite(t, accept) ==
    /\ Running
    /\ th[t].pc = "write"
    /\ LET c == th[t].con[1]
           sent(done) == <<[c EXCEPT !.out = th[t].msg, !.outDone = done,
                                     !.accept = accept]>>
       IN CASE accept = "all" ->
                 /\ th' = [th EXCEPT ![t].pc = "read", ![t].con = sent(TRUE)]
                 /\ UNCHANGED fds
            [] accept = "reset" ->
                 ReturnErr(t, IoError("write"), sent(FALSE))
            [] OTHER ->
                 IF TimesOut(c.wtimeout)
                 THEN ReturnErr(t, IoError("write timed out"), sent(FALSE))
                 ELSE Hang(t, sent(FALSE))
    /\ UNCHANGED <<INSTANCE_DETAILS, lock, panicked>>

\* Variant: a single read(), which returns with the first byte.
SingleReadSize == HeaderSize - 4

\* Bytes read_exact needs before it returns Ok.
ReadExactSize == HeaderSize

\* Lines 240-241: read_exact into a buffer of the header's size.  Too few
\* bytes before the end of the stream or the timeout are an error.
ProxyRead(t, answer) ==
    /\ Running
    /\ th[t].pc = "read"
    /\ LET c == th[t].con[1]
           got(n) == <<[c EXCEPT !.nread = n, !.answer = <<answer>>]>>
       IN IF Len(answer.resp) >= ReadExactSize
          THEN /\ th' = [th EXCEPT ![t].pc = "match", ![t].con = got(ReadExactSize),
                           ![t].buffer = SubSeq(answer.resp, 1, ReadExactSize)]
               /\ UNCHANGED fds
          ELSE IF answer.then = "eof"
          THEN ReturnErr(t, IoError("failed to fill whole buffer"),
                         got(Len(answer.resp)))
          ELSE IF TimesOut(c.rtimeout)
          THEN ReturnErr(t, IoError("read timed out"), got(Len(answer.resp)))
          ELSE Hang(t, got(Len(answer.resp)))
    /\ UNCHANGED <<INSTANCE_DETAILS, lock, panicked>>

\* Line 244: header.msg_type as u8.  The header is the buffer seen as a
\* MessageHeader, whose msg_type is a MessageId; a byte that is no MessageId
\* is an invalid value of that type, and reading it is undefined behaviour:
\* the build may go on with the byte itself or with any value it takes a
\* MessageId to have.
MsgTypeAsU8(byte) == IF byte \in MessageIds THEN {byte} ELSE MessageIds \cup {byte}

\* Lines 245-259: the arm of the match taken for the value v.
MatchArm(v) ==
    CASE v = SuccessId -> "success"
      [] v = FailedId  -> "failed"
      [] OTHER         -> "unknown"

UnknownMessage(v) ==
    [kind |-> "GenericError", text |-> "Received unknown message with id", id |-> v]

\* Line 142: the len field of a header, four bytes, most significant first.
BodyLen(header) ==
    ((header[2] * (U8Max + 1) + header[3]) * (U8Max + 1) + header[4])
        * (U8Max + 1) + header[5]

\* Variant: the body the header announces is read before the hand-over.
HandOverAfterBody(c) ==
    [IntoRawFd(c) EXCEPT !.nread = c.nread + BodyLen(c.answer[1].resp)]

\* Variant: the descriptor is only read (as_raw_fd) and the stream dropped
\* at the end of the function.
AsRawFdThenDrop(c) == Drop(c)

\* What becomes of the stream on the success arm (line 263).
HandOver(c) == IntoRawFd(c)

\* Lines 243-263: the match on the header's type, then the hand-over.
ProxyMatch(t, v) ==
    /\ Running
    /\ th[t].pc = "match"
    /\ v \in MsgTypeAsU8(th[t].buffer[1])
    /\ CASE MatchArm(v) = "success" ->
              LET c == HandOver(th[t].con[1]) IN
              /\ fds' = Closed(fds, th[t].con[1], c)
              /\ Return(t, [th[t] EXCEPT !.ret = <<c.fd>>, !.con = <<c>>])
         [] MatchArm(v) = "failed" ->
              ReturnErr(t, GenericError("Failed to establish proxied connection!"),
                        th[t].con)
         [] OTHER ->
              ReturnErr(t, UnknownMessage(v), th[t].con)
    /\ UNCHANGED <<INSTANCE_DETAILS, lock, panicked>>

(***************************************************************************)
(* The host and the specification.                                         *)
(***************************************************************************)
\* sshd closes a socket ref_proxy_connect gave it and forgets the handle.
HostClose(t) ==
    /\ Running
    /\ th[t].pc = "idle"
    /\ th[t].op = "proxy"
    /\ th[t].ret # << >>
    /\ th[t].ret[1] \in Fds
    /\ fds[th[t].ret[1]] = "host"
    /\ fds' = [fds EXCEPT ![th[t].ret[1]] = "free"]
    /\ th' = [th EXCEPT ![t] = IdleFrame]
    /\ UNCHANGED <<INSTANCE_DETAILS, lock, panicked>>

Bytes == 0..U8Max

\* The steps of a call that is under way, the web server answering with one
\* of texts.
CallStepWith(t, texts) ==
    \/ \E ok \in BOOLEAN : AuthSend(t, ok)
    \/ \E text \in {<<x>> : x \in texts} \cup {<< >>} : AuthText(t, text)
    \/ AuthParse(t)
    \/ AuthAssert(t)
    \/ AuthStore(t)
    \/ \E ok \in BOOLEAN : ProxyConnect(t, ok)
    \/ \E ok \in BOOLEAN : ProxySetWriteTimeout(t, ok)
    \/ \E ok \in BOOLEAN : ProxySetReadTimeout(t, ok)
    \/ \E accept \in Accepts : ProxyWrite(t, accept)
    \/ \E answer \in Answers : ProxyRead(t, answer)
    \/ \E v \in Bytes : ProxyMatch(t, v)

CallStep(t) == CallStepWith(t, ResponseTexts)

\* The host calls an entry point, or closes a socket it was given.
HostStep(t) ==
    \/ \E username \in AuthStrings, auth_info \in AuthStrings :
          AuthEnter(t, username, auth_info)
    \/ \E addr \in AddrStrings, port \in PortStrings : ProxyEnter(t, addr, port)
    \/ HostClose(t)

Next == \E t \in Threads : HostStep(t) \/ CallStep(t)

Spec == Init /\ [][Next]_vars

\* The same host with a web server whose grants differ in the permissions
\* only.
PermissionNext == \E t \in Threads : HostStep(t) \/ CallStepWith(t, PermissionTexts)

PermissionSpec == Init /\ [][PermissionNext]_vars

\* The host calling from one thread only: its calls follow one another.
MainThread == CHOOSE t \in Threads : TRUE

SerialNext == HostStep(MainThread) \/ CallStep(MainThread)

\* A call under way goes on: its thread is scheduled, and a blocking call
\* on a socket ends when its timeout passes.
FairSpec == Init /\ [][SerialNext]_vars /\ WF_vars(CallStep(MainThread))


(***************************************************************************)
(* Properties.                                                             *)
(***************************************************************************)
\* Thread t's last call was ref_proxy_connect and has returned.
ProxyReturned(t) == th[t].op = "proxy" /\ th[t].pc = "idle"

\* C1: a ref_proxy_connect call that finds the cache unset returns -1 and
\* has opened no connection, whatever addr and port are; and as long as the
\* cache is unset no descriptor is open and no call holds a connection.
C1_FailClosedWithoutGrant ==
    /\ \A t \in Threads :
          (th[t].op = "proxy" /\ th[t].resp = << >>) =>
             /\ th[t].pc = "idle"
             /\ th[t].ret = <<-1>>
             /\ th[t].con = << >>
             /\ th[t].msg = << >>
    /\ INSTANCE_DETAILS = << >> =>
          /\ \A fd \in Fds : fds[fd] = "free"
          /\ \A t \in Threads : th[t].con = << >>

C1_Witness ==
    \E t \in Threads :
       /\ ProxyReturned(t)
       /\ th[t].resp = << >>
       /\ th[t].ret = <<-1>>
       /\ ~IntoStringOk(th[t].addr[1])
       /\ INSTANCE_DETAILS = << >>

\* C2: a stored grant is never replaced: once the cache is set, no step
\* changes it.
C2_SingleSet == [][INSTANCE_DETAILS # << >> => INSTANCE_DETAILS' = INSTANCE_DETAILS]_vars

\* C3: a ref_get_instance_details call that reaches the assertion while a
\* grant is stored never gets past it (it neither stores nor returns), and
\* the step in which the assertion fails ends the process and leaves the
\* stored grant as it was.
C3_SecondSetFatal ==
    [][ /\ \A t \in Threads :
              (th[t].pc = "assert" /\ INSTANCE_DETAILS # << >>) => th'[t] = th[t]
        /\ (panicked = << >> /\ panicked' # << >> /\ panicked'[1].at = "assert") =>
              /\ INSTANCE_DETAILS # << >>
              /\ INSTANCE_DETAILS' = INSTANCE_DETAILS
              /\ th[panicked'[1].thread].pc = "assert" ]_vars

C3_Witness ==
    /\ panicked # << >>
    /\ panicked[1].at = "assert"
    /\ INSTANCE_DETAILS # << >>
    /\ th[panicked[1].thread].resp # << >>

\* Thread t's step ends its ref_get_instance_details call before the
\* assertion was reached.
AuthFailStep(t) ==
    /\ th'[t] # th[t]
    /\ th[t].pc \in {"idle", "send", "text", "parse"}
    /\ th'[t].op = "auth"
    /\ th'[t].pc = "idle"

\* C4: a ref_get_instance_details call in which a step fails returns
\* normally with an error reported and the cache untouched; only a call
\* whose strings are UTF-8 and whose response text parses as a JsonResponse
\* reaches the store; and while the cache is unset every ref_proxy_connect
\* call that starts returns -1 at once.
C4_FailedAuthLeavesUnset ==
    [][ \A t \in Threads :
          /\ AuthFailStep(t) =>
                /\ INSTANCE_DETAILS' = INSTANCE_DETAILS
                /\ th'[t].err # NoError
                /\ panicked' = << >>
          /\ (th[t].pc = "parse" /\ ~FromStrOk(th[t].body[1]) /\ th'[t] # th[t]) =>
                AuthFailStep(t)
          /\ (th'[t].pc = "send" /\ th[t].pc = "idle") =>
                /\ IntoStringOk(th'[t].req[1].name)
                /\ IntoStringOk(th'[t].req[1].pubkey)
          /\ (INSTANCE_DETAILS = << >> /\ th[t].pc = "idle" /\ th'[t] # th[t]
                /\ th'[t].op = "proxy") =>
                /\ th'[t].pc = "idle"
                /\ th'[t].ret = <<-1>> ]_vars

C4_Witness ==
    \E t, u \in Threads :
       /\ th[t].op = "auth" /\ th[t].pc = "idle"
       /\ th[t].err = GenericError("parse")
       /\ INSTANCE_DETAILS = << >>
       /\ ProxyReturned(u)
       /\ th[u].ret = <<-1>>


\* Thread t's ref_proxy_connect call read a complete header whose first
\* byte is tag.
GotHeader(t, tag) ==
    /\ th[t].op = "proxy"
    /\ th[t].con # << >>
    /\ th[t].con[1].answer # << >>
    /\ Len(th[t].con[1].answer[1].resp) >= HeaderSize
    /\ th[t].con[1].answer[1].resp[1] = tag

\* C5: a call that has returned after a complete header with tag 50 returned
\* the descriptor of the connection the handshake ran on; that descriptor is
\* open and the host's, the client never closed it, and the client read the
\* five bytes of the header from it and nothing more.
C5_SuccessHandoff ==
    \A t \in Threads :
       (ProxyReturned(t) /\ GotHeader(t, SuccessId)) =>
          /\ th[t].ret = <<th[t].con[1].fd>>
          /\ th[t].err = NoError
          /\ th[t].con[1].state = "raw"
          /\ th[t].con[1].closes = 0
          /\ th[t].con[1].nread = HeaderSize
          /\ th[t].con[1].outDone
          /\ fds[th[t].con[1].fd] = "host"

C5_Witness ==
    \E t \in Threads :
       /\ ProxyReturned(t)
       /\ GotHeader(t, SuccessId)
       /\ th[t].ret = <<th[t].con[1].fd>>
       /\ fds[th[t].ret[1]] = "host"

\* C6: a call that has returned after a complete header with tag 51 returned
\* -1, closed the connection exactly once and gave the host no handle to it.
C6_RejectionPath ==
    \A t \in Threads :
       (ProxyReturned(t) /\ GotHeader(t, FailedId)) =>
          /\ th[t].ret = <<-1>>
          /\ th[t].con[1].state = "dropped"
          /\ th[t].con[1].closes = 1
          /\ th[t].ret # <<th[t].con[1].fd>>

C6_Witness ==
    \E t \in Threads :
       /\ ProxyReturned(t)
       /\ GotHeader(t, FailedId)
       /\ th[t].ret = <<-1>>
       /\ th[t].con[1].closes = 1

\* C7: a call that has returned after a complete header whose tag is neither
\* 50 nor 51 returned -1, reported the unknown-message error with exactly
\* that tag, and closed the connection.
C7_UnknownTag ==
    \A t \in Threads : \A tag \in Bytes \ {SuccessId, FailedId} :
       (ProxyReturned(t) /\ GotHeader(t, tag)) =>
          /\ th[t].ret = <<-1>>
          /\ th[t].err = UnknownMessage(tag)
          /\ th[t].con[1].state = "dropped"
          /\ th[t].con[1].closes = 1

\* C8: no ref_proxy_connect call ends the process, and every call that has
\* returned returned -1 or, after a header with tag 50, the descriptor of
\* its connection.
C8_BinaryOutcome ==
    \A t \in Threads :
       th[t].op = "proxy" =>
          /\ ~(panicked # << >> /\ panicked[1].thread = t)
          /\ th[t].pc = "idle" =>
                \/ th[t].ret = <<-1>>
                \/ GotHeader(t, SuccessId) /\ th[t].ret = <<th[t].con[1].fd>>

\* Thread t is inside the handshake of a ref_proxy_connect call.
InHandshake(t) ==
    th[t].pc \in {"connect", "wtimeout", "rtimeout", "write", "read", "match", "hung"}

\* C9: no call waits for ever on the proxy server: a call that is in the
\* handshake returns (or the process has ended); and a call that has
\* returned after the server sent nothing, or did not take the request,
\* returned -1 with its connection closed.
C9_TimeoutTerminates ==
    /\ \A t \in Threads : InHandshake(t) ~> (th[t].pc = "idle" \/ panicked # << >>)
    /\ [](\A t \in Threads :
            (/\ ProxyReturned(t)
             /\ th[t].con # << >>
             /\ \/ th[t].con[1].accept = "stall"
                \/ th[t].con[1].answer = <<[resp |-> << >>, then |-> "silent"]>>) =>
               /\ th[t].ret = <<-1>>
               /\ th[t].err.kind = "IoError"
               /\ th[t].con[1].state = "dropped"
               /\ th[t].con[1].closes = 1)

C9_Witness ==
    \E t \in Threads :
       /\ ProxyReturned(t)
       /\ th[t].con # << >>
       /\ th[t].con[1].answer = <<[resp |-> << >>, then |-> "silent"]>>
       /\ th[t].err = IoError("read timed out")
       /\ th[t].ret = <<-1>>

\* C10: the len field of every message built or written equals the byte
\* length of the JSON body that follows it.
C10_LengthPrefix ==
    \A t \in Threads :
       /\ th[t].msg # << >> => th[t].msg[1].len = th[t].msg[1].body.nbytes
       /\ (th[t].con # << >> /\ th[t].con[1].out # << >>) =>
             th[t].con[1].out[1].len = th[t].con[1].out[1].body.nbytes


\* Bytes have gone over thread t's connection, or were asked to.
DataExchanged(c) ==
    c.out # << >> \/ c.nread > 0 \/ c.accept # "" \/ c.answer # << >>

\* C11: a connection on which a byte was written or read has both timeouts
\* set, and so has every call that is at the write or at the read; a call
\* that has returned because a timeout could not be set returned -1 and
\* exchanged no byte.
C11_TimeoutsBeforeData ==
    \A t \in Threads :
       th[t].con # << >> =>
          LET c == th[t].con[1] IN
          /\ (DataExchanged(c) \/ th[t].pc \in {"write", "read", "match"}) =>
                /\ c.wtimeout = DEFAULT_TIMEOUT
                /\ c.rtimeout = DEFAULT_TIMEOUT
          /\ (ProxyReturned(t) /\ (c.wtimeout = 0 \/ c.rtimeout = 0)) =>
                /\ th[t].ret = <<-1>>
                /\ th[t].err \in {IoError("set_write_timeout"),
                                  IoError("set_read_timeout")}
                /\ ~DataExchanged(c)

C11_Witness ==
    \E t, u \in Threads :
       /\ th[t].con # << >> /\ th[t].con[1].outDone /\ th[t].con[1].nread = HeaderSize
       /\ th[t].con[1].wtimeout = DEFAULT_TIMEOUT
       /\ ProxyReturned(u) /\ th[u].err = IoError("set_read_timeout")
       /\ th[u].con # << >> /\ th[u].con[1].out = << >>

\* C12: a call whose connection delivered fewer than five bytes has
\* returned -1 with an I/O error and its connection closed, whatever the
\* first byte was; no buffer was interpreted.
C12_HeaderReadInFull ==
    \A t \in Threads :
       (/\ th[t].op = "proxy"
        /\ th[t].con # << >>
        /\ th[t].con[1].answer # << >>
        /\ Len(th[t].con[1].answer[1].resp) < HeaderSize) =>
          /\ th[t].pc \in {"idle", "hung"}
          /\ th[t].pc = "idle" =>
                /\ th[t].ret = <<-1>>
                /\ th[t].err.kind = "IoError"
                /\ th[t].err.id = -1
                /\ th[t].con[1].state = "dropped"
                /\ th[t].con[1].closes = 1
                /\ th[t].con[1].nread = Len(th[t].con[1].answer[1].resp)

C12_Witness ==
    \E t \in Threads :
       /\ ProxyReturned(t)
       /\ th[t].con # << >>
       /\ th[t].con[1].answer = <<[resp |-> <<SuccessId>>, then |-> "eof"]>>
       /\ th[t].ret = <<-1>>
       /\ th[t].err = IoError("failed to fill whole buffer")

\* C13: a call that has returned and had opened a connection either
\* returned its descriptor, which is then the host's and was never closed by
\* the client, or returned -1 and closed it exactly once; and a descriptor
\* that is the client's belongs to a call that is still in its handshake.
C13_ExactlyOnceRelease ==
    /\ \A t \in Threads :
          (ProxyReturned(t) /\ th[t].con # << >>) =>
             LET c == th[t].con[1] IN
             \/ /\ th[t].ret = <<c.fd>>
                /\ c.state = "raw"
                /\ c.closes = 0
                /\ fds[c.fd] = "host"
             \/ /\ th[t].ret = <<-1>>
                /\ c.state = "dropped"
                /\ c.closes = 1
    /\ \A fd \in Fds :
          fds[fd] = "client" =>
             \E t \in Threads :
                /\ InHandshake(t)
                /\ th[t].con # << >>
                /\ th[t].con[1].fd = fd
                /\ th[t].con[1].state = "owned"
    /\ \A t, u \in Threads :
          (/\ t # u /\ th[t].con # << >> /\ th[u].con # << >>
           /\ th[t].con[1].state # "dropped" /\ th[u].con[1].state # "dropped") =>
             th[t].con[1].fd # th[u].con[1].fd

C13_Witness ==
    \E t \in Threads :
       /\ ProxyReturned(t)
       /\ th[t].con # << >>
       /\ th[t].err = IoError("write timed out")
       /\ th[t].con[1].closes = 1
       /\ th[t].ret = <<-1>>

\* Thread t is inside the HTTP lookup or inside a step of the handshake.
InNetworkIO(t) ==
    th[t].pc \in {"send", "text", "connect", "wtimeout", "rtimeout", "write",
                  "read", "hung"}

\* C14: a thread that is inside the HTTP lookup or the handshake does not
\* hold the lock of INSTANCE_DETAILS, and neither does a thread that is in
\* no call.
C14_LockNotHeldAcrossIO ==
    \A t \in Threads : (InNetworkIO(t) \/ th[t].pc = "idle") => lock # t

C14_Witness ==
    \E t, u \in Threads :
       /\ th[t].pc = "read" /\ th[u].pc = "text"
       /\ INSTANCE_DETAILS # << >>
       /\ lock = "free"


\* The grants a lookup response can be parsed to.
ParsedGrants == {FromStr(text) : text \in {x \in ResponseTexts : FromStrOk(x)}}

\* Thread t takes the step that enters ref_proxy_connect.
EntersProxy(t) == th[t].pc = "idle" /\ th'[t].op = "proxy" /\ th'[t] # th[t]

\* C15: a call of ref_proxy_connect observes the cache as it is at the
\* moment of its read: unset, and then it returns -1, or the whole grant as
\* one lookup response was parsed to; the copy stays as it was read for the
\* rest of the call; and a cache that is set is never unset again, so a call
\* that starts after the store observes a grant.
C15_ConsistentSnapshot ==
    [][/\ \A t \in Threads :
             /\ EntersProxy(t) =>
                   /\ th'[t].resp = INSTANCE_DETAILS
                   /\ th'[t].resp = << >> =>
                         (th'[t].pc = "idle" /\ th'[t].ret = <<-1>>)
                   /\ th'[t].resp # << >> => th'[t].resp[1] \in ParsedGrants
             /\ (th[t].op = "proxy" /\ th[t].pc # "idle" /\ th'[t].op = "proxy") =>
                   th'[t].resp = th[t].resp
       /\ INSTANCE_DETAILS # << >> => INSTANCE_DETAILS' # << >>]_vars

C15_Witness ==
    \E t, u \in Threads :
       /\ th[t].op = "proxy" /\ th[t].pc = "read"
       /\ th[t].resp = INSTANCE_DETAILS /\ th[t].resp = <<GrantA>>
       /\ ProxyReturned(u) /\ th[u].resp = << >> /\ th[u].ret = <<-1>>

\* The order of the steps of the handshake.
Rank(pc) ==
    CASE pc = "connect" -> 1
      [] pc = "wtimeout" -> 2
      [] pc = "rtimeout" -> 3
      [] pc = "write" -> 4
      [] pc = "read" -> 5
      [] pc = "match" -> 6
      [] pc = "hung" -> 7
      [] OTHER -> 0

\* C16: within one call the steps of the handshake are taken in order and
\* none twice: the call connects at most once, the connection it holds stays
\* the same one, and the request is written to it at most once, from
\* nothing; a failure ends the call; and a call that starts holds no
\* connection, no buffer and no result of the call before it, and a message
\* built from its own arguments and its own read of the cache.
C16_SingleAttempt ==
    [][\A t \in Threads :
          /\ (InHandshake(t) /\ th'[t] # th[t]) =>
                /\ th'[t].op = "proxy"
                /\ th'[t].pc = "idle" \/ Rank(th'[t].pc) > Rank(th[t].pc)
                /\ th[t].con = << >> =>
                      /\ th[t].pc = "connect"
                      /\ th'[t].con # << >> =>
                            /\ th'[t].con[1] = NewConnection(th'[t].con[1].fd)
                            /\ fds[th'[t].con[1].fd] = "free"
                /\ th[t].con # << >> =>
                      /\ th[t].pc # "connect"
                      /\ th'[t].con # << >>
                      /\ th'[t].con[1].fd = th[t].con[1].fd
                      /\ th'[t].con[1].out # th[t].con[1].out =>
                            (th[t].pc = "write" /\ th[t].con[1].out = << >>)
                /\ (th[t].err # NoError \/ th'[t].err # NoError) =>
                      (th'[t].pc = "idle" /\ th[t].err = NoError)
          /\ EntersProxy(t) =>
                /\ th'[t].con = << >>
                /\ th'[t].buffer = << >>
                /\ th'[t].pc = "connect" =>
                      /\ th'[t].err = NoError
                      /\ th'[t].ret = << >>
                      /\ th'[t].msg = <<BuildMessage(ToJsonString(NewProxyRequest(
                            th'[t].resp[1].instance_id, th'[t].addr[1],
                            th'[t].port[1])))>>]_vars

\* One call has failed at the write and closed its connection; another has
\* written its request to a connection of its own and waits for the header.
C16_Witness ==
    \E t, u \in Threads :
       /\ ProxyReturned(u) /\ th[u].err = IoError("write")
       /\ th[u].con # << >> /\ th[u].con[1].closes = 1
       /\ th[t].pc = "read" /\ th[t].con[1].outDone
       /\ th[t].con[1].nread = 0

\* C17: no step of a ref_proxy_connect call changes INSTANCE_DETAILS.
C17_ProxyLeavesCache ==
    [][\A t \in Threads :
          (th'[t] # th[t] /\ th'[t].op = "proxy") =>
             INSTANCE_DETAILS' = INSTANCE_DETAILS]_vars

C17_Witness ==
    \E t \in Threads :
       /\ ProxyReturned(t)
       /\ th[t].con # << >>
       /\ th[t].ret = <<th[t].con[1].fd>>
       /\ th[t].resp # << >>
       /\ INSTANCE_DETAILS = th[t].resp


\* C18: on no connection has the client read more than the five bytes of
\* the header, and it has read all the server sent up to five; a call that
\* has returned after a header with tag 50 returned the descriptor having
\* read exactly five bytes, whether the header's len is zero or not, so the
\* bytes the server sent after the header are unread.
C18_BodyNotConsumed ==
    \A t \in Threads :
       th[t].con # << >> =>
          LET c == th[t].con[1] IN
          /\ c.nread <= HeaderSize
          /\ c.answer = << >> => c.nread = 0
          /\ c.answer # << >> =>
                c.nread = IF Len(c.answer[1].resp) < HeaderSize
                          THEN Len(c.answer[1].resp) ELSE HeaderSize
          /\ (ProxyReturned(t) /\ GotHeader(t, SuccessId)) =>
                /\ th[t].ret = <<c.fd>>
                /\ c.state = "raw"
                /\ c.nread = HeaderSize
                /\ c.nread + BodyLen(c.answer[1].resp) <= Len(c.answer[1].resp)

C18_Witness ==
    \E t \in Threads :
       /\ ProxyReturned(t)
       /\ GotHeader(t, SuccessId)
       /\ BodyLen(th[t].con[1].answer[1].resp) = 2
       /\ Len(th[t].con[1].answer[1].resp) - th[t].con[1].nread = 2
       /\ th[t].ret = <<th[t].con[1].fd>>


\* What a JSON reader makes of the content of a string literal.
UnescapeClass(class) ==
    CASE class = "plain" -> "plain"
      [] class = "esc2"  -> "quote"
      [] class = "esc6"  -> "ctrl"
      [] OTHER           -> "garbage"

UnescapeStr(text) == [i \in 1..Len(text) |-> <<UnescapeClass(text[i][1]), text[i][2]>>]

RECURSIVE FromDigits(_)
\* The number a JSON reader makes of a sequence of decimal digits.
FromDigits(ds) ==
    IF ds = << >> THEN 0 ELSE 10 * FromDigits(SubSeq(ds, 1, Len(ds) - 1)) + ds[Len(ds)]

\* C19: whatever a call has written to its connection is the message it
\* built: its tag is 0, and its body reads back as msg_type "PROXY_REQUEST",
\* the instance_id of the grant the call read from the cache, and the addr and
\* port strings the caller gave, byte for byte; and no byte of the response
\* was read, or waited for, before the whole request was written.
C19_RequestCarriesIdentity ==
    \A t \in Threads :
       th[t].con # << >> =>
          LET c == th[t].con[1] IN
          /\ c.out # << >> =>
                LET text == c.out[1].body.text IN
                /\ c.out[1].msg_id = ProxyRequestId
                /\ text.msg_type = "PROXY_REQUEST"
                /\ th[t].resp # << >>
                /\ FromDigits(text.instance_id) = th[t].resp[1].instance_id
                /\ UnescapeStr(text.dst_ip) = th[t].addr[1]
                /\ UnescapeStr(text.dst_port) = th[t].port[1]
          /\ (c.nread > 0 \/ c.answer # << >> \/ th[t].pc \in {"read", "match"}) =>
                (c.out # << >> /\ c.outDone)

C19_Witness ==
    \E t, u \in Threads :
       /\ th[t].pc = "read" /\ th[t].con[1].outDone
       /\ th[t].resp = <<GrantB>>
       /\ FromDigits(th[t].con[1].out[1].body.text.instance_id) = GrantB.instance_id
       /\ \E i \in 1..Len(th[t].addr[1]) : th[t].addr[1][i][1] = "quote"
       /\ th[u].pc = "read" /\ th[u].resp = <<GrantA>>
       /\ FromDigits(th[u].con[1].out[1].body.text.instance_id) = GrantA.instance_id


\* Two calls of ref_proxy_connect that were given the same strings and read
\* grants of the same instance.
SameRequest(t, u) ==
    /\ th[t].op = "proxy" /\ th[u].op = "proxy"
    /\ th[t].resp # << >> /\ th[u].resp # << >>
    /\ th[t].resp[1].instance_id = th[u].resp[1].instance_id
    /\ th[t].addr = th[u].addr
    /\ th[t].port = th[u].port

\* What the network and the proxy server did to thread t's call.
ServerBehaviour(t) ==
    IF th[t].con = << >>
    THEN << >>
    ELSE <<[wtimeout |-> th[t].con[1].wtimeout, rtimeout |-> th[t].con[1].rtimeout,
            accept |-> th[t].con[1].accept, answer |-> th[t].con[1].answer]>>

\* The header thread t's call read, if it read one, has a tag that is a
\* MessageId, so that the match on it is defined.
TagDefined(t) ==
    (th[t].con # << >> /\ th[t].con[1].answer # << >>
        /\ Len(th[t].con[1].answer[1].resp) >= HeaderSize) =>
            th[t].con[1].answer[1].resp[1] \in MessageIds

\* What thread t's call came to: a handle or -1, and the error reported.
Outcome(t) == [handle |-> th[t].ret # <<-1>>, err |-> th[t].err]

=============================================================================
